---- MODULE Spec2Model ----
(***************************************************************************)
(* The analytics event dispatcher of the lightdash backend                 *)
(* (class LightdashAnalytics, a subclass of the rudderstack SDK client)    *)
(* and the request -> execution-context selector that lives beside it.     *)
(*                                                                         *)
(* JavaScript values are modelled as strings: "<undefined>", "<null>",     *)
(* "<true>", "<false>" stand for the primitives of the same name, every    *)
(* other string for itself.  Objects are functions from their own keys to  *)
(* values, so that a key holding undefined and an absent key differ, as    *)
(* they do for Object.keys / hasOwnProperty.                               *)
(***************************************************************************)
EXTENDS Integers, Sequences, FiniteSets, TLC

(***************************************************************************)
(* Bounds of the model.                                                    *)
(***************************************************************************)
\* operations started in one behaviour: direct identify / track / group calls
\* and wrapEvent invocations together
MaxOps == 2
\* wrapEvent invocations that may be in flight together
MaxInv == 2
\* calls of the delivery SDK that throw in one behaviour
MaxSdkFailures == 1
\* length of the `context` query parameter
MaxLen == 3
\* the numeric limits handed to parseAnalyticsLimit are -MaxLimit..MaxLimit
MaxLimit == 60
\* clicks on the 'Run validation' button in one behaviour
MaxClicks == 8

(***************************************************************************)
(* JavaScript values and object operations.                                *)
(***************************************************************************)
JsUndefined == "<undefined>"
JsNull == "<null>"
JsTrue == "<true>"
JsFalse == "<false>"
JsBoolean == {JsTrue, JsFalse}

\* ToBoolean, as applied by `!x`, `x ? a : b`, `x || y` and `if (x)`
Truthy(v) == v \notin {JsUndefined, JsNull, JsFalse, ""}

\* `a || b`
OrElse(a, b) == IF Truthy(a) THEN a ELSE b

\* the property read `o.k`: undefined when o has no own key k
Get(o, k) == IF k \in DOMAIN o THEN o[k] ELSE JsUndefined

\* the object literal `{ ...a, ...b }`: b's keys win
Spread(a, b) ==
    [k \in DOMAIN a \cup DOMAIN b |-> IF k \in DOMAIN b THEN b[k] ELSE a[k]]

\* the empty object literal `{}`
EmptyObject == [k \in {} |-> JsUndefined]

(***************************************************************************)
(* Failure values (what a `throw` or a rejected promise carries).          *)
(***************************************************************************)
NoFailure == "<none>"
\* `new Error('boom')` raised by a wrapped operation
OpError == "Error: boom"
\* a primitive string raised by a wrapped operation (`throw 'oops'`)
OpString == "oops"
\* what a deriveProperties callback raises
DeriveError == "Error: derive"
\* what the delivery SDK raises when one of its calls fails
SdkError == "Error: transport"
\* raised by the runtime on a property read of null or undefined
JsTypeError == "TypeError: Cannot read properties (reading 'message')"

Nullish(v) == v \in {JsUndefined, JsNull}

\* `e.message` for a non-nullish e: the message of an Error object, undefined
\* for a primitive string (which has no such property)
MessageOf(e) ==
    CASE e = OpError -> "boom"
      [] e = DeriveError -> "derive"
      [] e = SdkError -> "transport"
      [] e = JsTypeError -> "Cannot read properties (reading 'message')"
      [] OTHER -> JsUndefined

\* the template-literal conversion `${e}`
JsToString(e) ==
    CASE e = JsUndefined -> "undefined"
      [] e = JsNull -> "null"
      [] OTHER -> e

\* the values a wrapped operation may reject with
OpFailures == {OpError, OpString, JsUndefined}

(***************************************************************************)
(* State.                                                                  *)
(***************************************************************************)
VARIABLES
    lightdashConfig,    \* this.lightdashConfig (readonly)
    lightdashContext,   \* this.lightdashContext (readonly)
    anonymousId,        \* static LightdashAnalytics.anonymousId
    sdkCalls,           \* calls made on the delivery SDK (super.*), in order
    last,               \* the latest direct identify/track/group call, as its caller saw it
    nOps,               \* operations started so far
    inv,                \* the wrapEvent invocations
    errorLog,           \* lines written by Logger.error
    req,                \* the request handed to the context selector
    ctx,                \* what the context selector returned for it
    warnLog,            \* lines written by console.warn
    limit,              \* the argument handed to parseAnalyticsLimit
    parsed,             \* what parseAnalyticsLimit returned for it
    isSuccess,          \* SettingsValidator: the validation query has loaded
    isValidating,       \* SettingsValidator: the isValidating state
    rendered,           \* SettingsValidator: the button as the latest render left it
    mutations,          \* SettingsValidator: validation mutations in flight
    nStarted,           \* SettingsValidator: validations started so far
    nClicks             \* SettingsValidator: clicks on the button so far

dispatcherVars ==
    <<lightdashConfig, lightdashContext, anonymousId, sdkCalls, last, nOps, inv, errorLog>>
selectorVars == <<req, ctx, warnLog>>
limitVars == <<limit, parsed>>
validatorVars == <<isSuccess, isValidating, rendered, mutations, nStarted, nClicks>>
otherVars == <<selectorVars, limitVars, validatorVars>>
vars == <<lightdashConfig, lightdashContext, anonymousId, sdkCalls, last, nOps, inv,
          errorLog, req, ctx, warnLog, limit, parsed, isSuccess, isValidating,
          rendered, mutations, nStarted, nClicks>>

(***************************************************************************)
(* Construction.                                                           *)
(***************************************************************************)
VERSION == "0.1484.5"
CLOUD_BETA == "cloud_beta"
DEFAULT_MODE == "default"
INSTALL_TYPE_UNKNOWN == "unknown"

\* uuidv4(): every call yields a fresh identifier; the n-th call of the process
\* is modelled by the n-th of these
Uuidv4(n) == IF n = 1 THEN "uuid-1" ELSE "uuid-2"

\* the context object built by the constructor
Constructor(config, env) ==
    [app |->
        [namespace |-> "lightdash",
         name |-> "lightdash_server",
         version |-> VERSION,
         mode |-> config.mode,
         siteUrl |-> IF config.mode = CLOUD_BETA THEN config.siteUrl ELSE JsNull,
         installId |-> OrElse(env.LIGHTDASH_INSTALL_ID, Uuidv4(2)),
         installType |-> OrElse(env.LIGHTDASH_INSTALL_TYPE, INSTALL_TYPE_UNKNOWN)]]

\* the static initialiser, evaluated when the class is defined
StaticAnonymousId(env) == OrElse(env.LIGHTDASH_INSTALL_ID, Uuidv4(1))

Configs ==
    [rudder : [writeKey : {JsUndefined, "", "wk-1"}],
     mode : {DEFAULT_MODE, CLOUD_BETA},
     siteUrl : {"https://bi.example"}]

Envs ==
    [LIGHTDASH_INSTALL_ID : {JsUndefined, "install-7"},
     LIGHTDASH_INSTALL_TYPE : {JsUndefined}]

\* the deployments the dispatcher is constructed in: a self-hosted one in the
\* default mode that sets no install id, and a cloud one that sets it, each with
\* the delivery key absent, empty or set
Deployments ==
    {d \in [config : Configs, env : Envs] :
        (d.config.mode = CLOUD_BETA) <=> Truthy(d.env.LIGHTDASH_INSTALL_ID)}

\* `!this.lightdashConfig.rudder.writeKey` is false
TrackingEnabled == Truthy(lightdashConfig.rudder.writeKey)

(***************************************************************************)
(* Inputs: payloads the callers hand to the dispatcher.                    *)
(***************************************************************************)
\* UpdateUserEvent: the properties are a LightdashUser plus four more fields
UserUpdatedEvents ==
    {[event |-> "user.updated",
      userId |-> "user-1",
      properties |->
          Spread([isTrackingAnonymized |-> anonymized,
                  isMarketingOptedIn |-> JsTrue,
                  isSetupComplete |-> JsFalse,
                  email |-> email,
                  firstName |-> "Ann",
                  lastName |-> "Lee",
                  role |-> "admin",
                  updatedUserId |-> "user-1",
                  organizationId |-> "org-1",
                  context |-> "update_self"],
                 job)] :
        anonymized \in JsBoolean,
        email \in {JsUndefined, "ann@x.io"},
        job \in {[jobTitle |-> "analyst"]}}

\* VerifiedUserEvent: email is optional
UserVerifiedEvents ==
    {[event |-> "user.verified",
      userId |-> "user-1",
      properties |->
          Spread([isTrackingAnonymized |-> anonymized, location |-> "onboarding"],
                 mail)] :
        anonymized \in JsBoolean,
        mail \in {EmptyObject, [email |-> "ann@x.io"]}}

\* events of the other shapes: a TrackSimpleEvent, which has no properties,
\* and a DeleteUserEvent, whose properties name a person
OtherEvents ==
    {[event |-> "password.updated", anonymousId |-> "anon-1"],
     [event |-> "user.deleted",
      userId |-> "user-1",
      properties |-> [context |-> "delete_self",
                      firstName |-> "Ann",
                      lastName |-> "Lee",
                      email |-> "ann@x.io",
                      organizationId |-> "org-1",
                      deletedUserId |-> "user-2"]]}

TrackEvents == UserUpdatedEvents \cup UserVerifiedEvents \cup OtherEvents

IdentifyPayloads ==
    {[userId |-> "user-1",
      traits |-> [email |-> "ann@x.io",
                  first_name |-> "Ann",
                  is_tracking_anonymized |-> JsFalse]],
     [userId |-> "user-2", traits |-> [is_tracking_anonymized |-> JsTrue]]}

GroupPayloads ==
    {[userId |-> "user-1", groupId |-> "org-1", traits |-> [name |-> "Acme"]]}

\* SemanticLayerView, the one event wrapEvent accepts
WrapEvents ==
    {[event |-> "semantic_layer.get_views",
      userId |-> "user-1",
      properties |-> [organizationId |-> "org-1", projectId |-> "proj-1"]]}

(***************************************************************************)
(* The delivery SDK (the superclass).  A call is recorded when it is made; *)
(* the SDK then returns or throws SdkError.                                *)
(***************************************************************************)
SdkOutcomes == {NoFailure, SdkError}

SdkCall(method, arg, outcome, src) ==
    [method |-> method, arg |-> arg, threw |-> outcome, src |-> src]

NumSdkFailures(log) == Cardinality({i \in 1..Len(log) : log[i].threw # NoFailure})

(***************************************************************************)
(* identify, track, group.  Each operator gives the SDK log after the      *)
(* call; the failure the call raises is that of its SDK call, if any.      *)
(***************************************************************************)
Enabled(config) == Truthy(config.rudder.writeKey)

isUserUpdatedEvent(event) == event.event = "user.updated"

isUserVerifiedEvent(event) == event.event = "user.verified"

\* mutant: the event name is not namespaced
EventName_NoPrefix(context, payload) == payload.event

\* `${this.lightdashContext.app.name}.${payload.event}`
EventName(context, payload) == context.app.name \o "." \o payload.event

\* mutant: the marketing flag is read from the anonymization field
basicEventProperties_WrongField(payload) ==
    [is_tracking_anonymized |-> Get(payload.properties, "isTrackingAnonymized"),
     is_marketing_opted_in |-> Get(payload.properties, "isTrackingAnonymized"),
     job_title |-> Get(payload.properties, "jobTitle"),
     is_setup_complete |-> Get(payload.properties, "isSetupComplete")]

basicEventProperties(payload) ==
    [is_tracking_anonymized |-> Get(payload.properties, "isTrackingAnonymized"),
     is_marketing_opted_in |-> Get(payload.properties, "isMarketingOptedIn"),
     job_title |-> Get(payload.properties, "jobTitle"),
     is_setup_complete |-> Get(payload.properties, "isSetupComplete")]

\* mutant: the anonymization flag is not consulted
UserUpdatedProperties_AlwaysPersonal(payload) ==
    Spread(basicEventProperties(payload),
           [email |-> Get(payload.properties, "email"),
            first_name |-> Get(payload.properties, "firstName"),
            last_name |-> Get(payload.properties, "lastName")])

\* mutant: first and last name are read from each other's field
UserUpdatedProperties_SwappedNames(payload) ==
    IF Truthy(Get(payload.properties, "isTrackingAnonymized"))
    THEN basicEventProperties(payload)
    ELSE Spread(basicEventProperties(payload),
                [email |-> Get(payload.properties, "email"),
                 first_name |-> Get(payload.properties, "lastName"),
                 last_name |-> Get(payload.properties, "firstName")])

\* mutant: the record's properties are spread under the computed ones
UserUpdatedProperties_SpreadRecord(payload) ==
    Spread(payload.properties,
           IF Truthy(Get(payload.properties, "isTrackingAnonymized"))
           THEN basicEventProperties(payload)
           ELSE Spread(basicEventProperties(payload),
                       [email |-> Get(payload.properties, "email"),
                        first_name |-> Get(payload.properties, "firstName"),
                        last_name |-> Get(payload.properties, "lastName")]))

\* the properties of an outgoing user.updated event
UserUpdatedProperties(payload) ==
    IF Truthy(Get(payload.properties, "isTrackingAnonymized"))
    THEN basicEventProperties(payload)
    ELSE Spread(basicEventProperties(payload),
                [email |-> Get(payload.properties, "email"),
                 first_name |-> Get(payload.properties, "firstName"),
                 last_name |-> Get(payload.properties, "lastName")])

\* mutant: the properties are forwarded as they came
UserVerifiedProperties_Forwarded(payload) == payload.properties

\* mutant: the anonymization test is inverted
UserVerifiedProperties_Inverted(payload) ==
    Spread(payload.properties,
           [email |-> IF Truthy(Get(payload.properties, "isTrackingAnonymized"))
                      THEN Get(payload.properties, "email")
                      ELSE JsUndefined])

\* the properties of an outgoing user.verified event
UserVerifiedProperties(payload) ==
    Spread(payload.properties,
           [email |-> IF Truthy(Get(payload.properties, "isTrackingAnonymized"))
                      THEN JsUndefined
                      ELSE Get(payload.properties, "email")])

\* the argument track hands to super.track
TrackArg(context, payload) ==
    IF isUserUpdatedEvent(payload)
    THEN Spread(payload,
                [event |-> EventName(context, payload),
                 context |-> Spread(context, EmptyObject),
                 properties |-> UserUpdatedProperties(payload)])
    ELSE IF isUserVerifiedEvent(payload)
    THEN Spread(payload,
                [event |-> EventName(context, payload),
                 context |-> Spread(context, EmptyObject),
                 properties |-> UserVerifiedProperties(payload)])
    ELSE Spread(payload,
                [event |-> EventName(context, payload),
                 context |-> Spread(context, EmptyObject)])

\* mutant: the suppression guard is missing
TrackLog_NoGuard(config, context, log, payload, outcome, src) ==
    Append(log, SdkCall("track", TrackArg(context, payload), outcome, src))

\* this.track(payload): the log after the call
TrackLog(config, context, log, payload, outcome, src) ==
    IF ~Enabled(config)
    THEN log
    ELSE Append(log, SdkCall("track", TrackArg(context, payload), outcome, src))

\* mutant: the traits are not handed over
IdentifyLog_NoTraits(config, context, log, payload, outcome, src) ==
    IF ~Enabled(config)
    THEN log
    ELSE Append(log, SdkCall("identify",
                             [userId |-> payload.userId,
                              context |-> Spread(context, EmptyObject)],
                             outcome, src))

\* this.identify(payload): the log after the call
IdentifyLog(config, context, log, payload, outcome, src) ==
    IF ~Enabled(config)
    THEN log
    ELSE Append(log, SdkCall("identify",
                             Spread(payload, [context |-> Spread(context, EmptyObject)]),
                             outcome, src))

\* mutant: the context handed over carries a freshly generated install id
GroupLog_FreshInstallId(config, context, log, payload, outcome, src) ==
    IF ~Enabled(config)
    THEN log
    ELSE Append(log,
                SdkCall("group",
                        Spread(payload,
                               [context |->
                                   [app |-> [context.app EXCEPT !.installId = Uuidv4(1)]]]),
                        outcome, src))

\* this.group(payload): the log after the call
GroupLog(config, context, log, payload, outcome, src) ==
    IF ~Enabled(config)
    THEN log
    ELSE Append(log, SdkCall("group",
                             Spread(payload, [context |-> Spread(context, EmptyObject)]),
                             outcome, src))

\* mutant: the dispatcher swallows what the SDK raises
Raised_Swallowed(before, after) == NoFailure

\* what a call whose log went from `before` to `after` raises: the failure of
\* the SDK call it made, nothing when it made none
Raised(before, after) ==
    IF Len(after) > Len(before) THEN after[Len(after)].threw ELSE NoFailure

\* a direct call, as its caller sees it
Direct(op, payload, after) ==
    /\ nOps < MaxOps
    /\ NumSdkFailures(after) <= MaxSdkFailures
    /\ sdkCalls' = after
    /\ last' = [op |-> op,
                input |-> payload,
                before |-> Len(sdkCalls),
                outcome |-> Raised(sdkCalls, after)]
    /\ nOps' = nOps + 1
    /\ UNCHANGED <<lightdashConfig, lightdashContext, anonymousId, inv, errorLog>>
    /\ UNCHANGED otherVars

Identify ==
    \E payload \in IdentifyPayloads, outcome \in SdkOutcomes :
        Direct("identify", payload,
               IdentifyLog(lightdashConfig, lightdashContext, sdkCalls, payload,
                           outcome, 0))

Track ==
    \E payload \in TrackEvents, outcome \in SdkOutcomes :
        Direct("track", payload,
               TrackLog(lightdashConfig, lightdashContext, sdkCalls, payload,
                        outcome, 0))

Group ==
    \E payload \in GroupPayloads, outcome \in SdkOutcomes :
        Direct("group", payload,
               GroupLog(lightdashConfig, lightdashContext, sdkCalls, payload,
                        outcome, 0))

(***************************************************************************)
(* wrapEvent.  An invocation runs in three steps, cut at its two awaits:   *)
(* the call up to `await func()`, the continuation when func's promise     *)
(* settles, and the continuation of the catch block after its              *)
(* `await this.track(...)`.                                                *)
(***************************************************************************)
\* results a wrapped operation may resolve with
Results == {"2"}

\* the extraProperties argument, drawn when wrapEvent first reads it: absent, two callbacks that build properties
\* from the result (the second names a key the base properties have too), and
\* a callback that throws
DeriveChoices == {"absent", "viewsCount", "projectId", "throws"}

\* `extraProperties ? extraProperties(results) : {}`, for a callback that returns
Derived(derive, results) ==
    CASE derive = "viewsCount" -> [viewsCount |-> results]
      [] derive = "projectId" -> [projectId |-> results]
      [] OTHER -> EmptyObject

IdleInvocation ==
    [pc |-> "idle",
     payload |-> EmptyObject,
     derive |-> "absent",
     opCalls |-> 0,
     opOutcome |-> "pending",
     opValue |-> NoFailure,
     e |-> NoFailure,
     cause |-> "none",
     value |-> NoFailure]

StartedEvent(payload) == Spread(payload, [event |-> payload.event \o ".started"])

\* mutant: the base properties are spread last and win over the derived ones
CompletedEvent_BaseWins(payload, properties) ==
    Spread(payload,
           [event |-> payload.event \o ".completed",
            properties |-> Spread(properties, payload.properties)])

CompletedEvent(payload, properties) ==
    Spread(payload,
           [event |-> payload.event \o ".completed",
            properties |-> Spread(payload.properties, properties)])

\* only built for an e that has properties to read
ErrorEvent(payload, e) ==
    Spread(payload,
           [event |-> payload.event \o ".error",
            properties |-> Spread(payload.properties, [error |-> MessageOf(e)])])

\* the catch block up to its await, entered with the failure e: the log and
\* the invocation after it
CatchBlock(config, context, log, rec, e, cause, outcome, i) ==
    LET caught == [rec EXCEPT !.e = e, !.cause = cause]
        after == TrackLog(config, context, log, ErrorEvent(rec.payload, e), outcome, i)
    IN  IF Nullish(e)
        THEN [log |-> log,
              rec |-> [caught EXCEPT !.pc = "rejected", !.value = JsTypeError]]
        ELSE IF Raised(log, after) # NoFailure
        THEN [log |-> after,
              rec |-> [caught EXCEPT !.pc = "rejected", !.value = Raised(log, after)]]
        ELSE [log |-> after, rec |-> [caught EXCEPT !.pc = "awaitTrack"]]

\* mutant: the operation is invoked without the .started event being sent
WrapEventCall_NoStarted(config, context, log, rec, outcome, outcomeE, i) ==
    [log |-> log, rec |-> [rec EXCEPT !.pc = "awaitFunc", !.opCalls = @ + 1]]

\* the body of the try block up to `await func()`
WrapEventCall(config, context, log, rec, outcome, outcomeE, i) ==
    LET started == TrackLog(config, context, log, StartedEvent(rec.payload), outcome, i)
    IN  IF Raised(log, started) # NoFailure
        THEN CatchBlock(config, context, started, rec, Raised(log, started),
                        "started", outcomeE, i)
        ELSE [log |-> started,
              rec |-> [rec EXCEPT !.pc = "awaitFunc", !.opCalls = @ + 1]]

\* the rest of the try block, once func's promise has resolved with results
WrapEventResolved(config, context, log, rec, results, derive, outcome, outcomeE, i) ==
    LET settled == [rec EXCEPT !.opOutcome = "resolved", !.opValue = results,
                               !.derive = derive]
        completed == TrackLog(config, context, log,
                              CompletedEvent(rec.payload, Derived(derive, results)),
                              outcome, i)
    IN  IF derive = "throws"
        THEN CatchBlock(config, context, log, settled, DeriveError, "derive",
                        outcomeE, i)
        ELSE IF Raised(log, completed) # NoFailure
        THEN CatchBlock(config, context, completed, settled, Raised(log, completed),
                        "completed", outcomeE, i)
        ELSE [log |-> completed,
              rec |-> [settled EXCEPT !.pc = "resolved", !.value = results]]

\* mutant: the operation is invoked a second time before the failure is handled
WrapEventRejected_Retry(config, context, log, rec, e, outcomeE, i) ==
    CatchBlock(config, context, log,
               [rec EXCEPT !.opOutcome = "rejected", !.opValue = e, !.opCalls = @ + 1],
               e, "op", outcomeE, i)

\* the catch block, once func's promise has rejected with e
WrapEventRejected(config, context, log, rec, e, outcomeE, i) ==
    CatchBlock(config, context, log,
               [rec EXCEPT !.opOutcome = "rejected", !.opValue = e],
               e, "op", outcomeE, i)

\* a step of invocation i that leaves the log and the invocation as `next` says
WrapStep(i, next) ==
    /\ NumSdkFailures(next.log) <= MaxSdkFailures
    /\ sdkCalls' = next.log
    /\ inv' = [inv EXCEPT ![i] = next.rec]
    /\ UNCHANGED <<lightdashConfig, lightdashContext, anonymousId, last, errorLog>>
    /\ UNCHANGED otherVars

WrapEvent(i) ==
    /\ inv[i].pc = "idle"
    /\ i > 1 => inv[i - 1].pc # "idle"
    /\ nOps < MaxOps
    /\ nOps' = nOps + 1
    /\ \E payload \in WrapEvents, outcome \in SdkOutcomes, outcomeE \in SdkOutcomes :
          WrapStep(i, WrapEventCall(lightdashConfig, lightdashContext, sdkCalls,
                                    [inv[i] EXCEPT !.payload = payload],
                                    outcome, outcomeE, i))

FuncResolves(i) ==
    /\ inv[i].pc = "awaitFunc"
    /\ UNCHANGED nOps
    /\ \E results \in Results, derive \in DeriveChoices,
          outcome \in SdkOutcomes, outcomeE \in SdkOutcomes :
          WrapStep(i, WrapEventResolved(lightdashConfig, lightdashContext, sdkCalls,
                                        inv[i], results, derive, outcome, outcomeE, i))

FuncRejects(i) ==
    /\ inv[i].pc = "awaitFunc"
    /\ UNCHANGED nOps
    /\ \E e \in OpFailures, outcomeE \in SdkOutcomes :
          WrapStep(i, WrapEventRejected(lightdashConfig, lightdashContext, sdkCalls,
                                        inv[i], e, outcomeE, i))

\* `Logger.error(...); throw e;` after the catch block's await
CatchResumes(i) ==
    /\ inv[i].pc = "awaitTrack"
    /\ errorLog' = Append(errorLog,
                          [line |-> "Error in scheduler task: " \o JsToString(inv[i].e),
                           src |-> i])
    /\ inv' = [inv EXCEPT ![i].pc = "rejected", ![i].value = inv[i].e]
    /\ UNCHANGED <<lightdashConfig, lightdashContext, anonymousId, sdkCalls, last, nOps>>
    /\ UNCHANGED otherVars

(***************************************************************************)
(* The dispatcher's specification.                                         *)
(***************************************************************************)
\* ctx before the selector has been called
NotCalled == <<"<not called>">>

(***************************************************************************)
(* parseAnalyticsLimit.  Its argument is 'table' | 'all' | number | null   *)
(* | undefined; a value is modelled by its type tag with the string or the *)
(* number it is (the unused one is "" or 0).                               *)
(***************************************************************************)
LimitString(s) == [type |-> "string", str |-> s, num |-> 0]
LimitNumber(n) == [type |-> "number", str |-> "", num |-> n]
LimitNull == [type |-> "null", str |-> "", num |-> 0]
LimitUndefined == [type |-> "undefined", str |-> "", num |-> 0]

\* the arguments of the declared type, and two strings outside it that
\* untyped callers can pass
AnalyticsLimits ==
    {LimitString(s) : s \in {"all", "table", "ALL", "custom"}}
        \cup {LimitNumber(n) : n \in (0 - MaxLimit)..MaxLimit}
        \cup {LimitNull, LimitUndefined}

\* mutant: the `case null:` label is missing
parseAnalyticsLimit_NoNullCase(l) ==
    CASE l = LimitString("all") -> "all"
      [] l = LimitString("table") \/ l = LimitUndefined -> "results"
      [] OTHER -> "custom"

\* the switch compares with ===, so a case matches on type and value
parseAnalyticsLimit(l) ==
    CASE l = LimitString("all") \/ l = LimitNull -> "all"
      [] l = LimitString("table") \/ l = LimitUndefined -> "results"
      [] OTHER -> "custom"

\* parsed before the function has been called
NotParsed == "<not called>"

LimitIdle ==
    /\ limit = LimitUndefined
    /\ parsed = NotParsed

CallParseAnalyticsLimit ==
    /\ parsed = NotParsed
    /\ parsed' = parseAnalyticsLimit(limit)
    /\ UNCHANGED limit
    /\ UNCHANGED <<dispatcherVars, selectorVars, validatorVars>>

(***************************************************************************)
(* The SettingsValidator component.  React re-renders after a state        *)
(* change; the update made in a click handler is rendered before the next  *)
(* event is handled, the one made in the mutation's callback at a later    *)
(* render.                                                                 *)
(***************************************************************************)
\* mutant: the button is rendered without its `disabled` property
Render_NeverDisabled(success, validating) ==
    [button |-> success, loading |-> validating, disabled |-> FALSE]

\* what a render leaves of the 'Run validation' button: it is there once the
\* query has loaded, with `loading` and `disabled` set to isValidating
Render(success, validating) ==
    [button |-> success, loading |-> validating, disabled |-> validating]

\* `validateProject()`: the hook starts one more validation mutation
validateProject(inFlight) == inFlight + 1

\* the hook calls the callback it was given for a mutation in flight
CallbackDue(inFlight) == inFlight > 0

\* the mutation whose callback was called is over
MutationOver(inFlight) == inFlight - 1

ValidatorIdle ==
    /\ isSuccess = FALSE
    /\ isValidating = FALSE
    /\ rendered = Render(FALSE, FALSE)
    /\ mutations = 0
    /\ nStarted = 0
    /\ nClicks = 0

\* useValidation's query loads
ValidationLoaded ==
    /\ ~isSuccess
    /\ isSuccess' = TRUE
    /\ UNCHANGED <<isValidating, rendered, mutations, nStarted, nClicks>>
    /\ UNCHANGED <<dispatcherVars, selectorVars, limitVars>>

\* a render that changes what is shown
Rerender ==
    /\ rendered # Render(isSuccess, isValidating)
    /\ rendered' = Render(isSuccess, isValidating)
    /\ UNCHANGED <<isSuccess, isValidating, mutations, nStarted, nClicks>>
    /\ UNCHANGED <<dispatcherVars, selectorVars, limitVars>>

\* a click on the button while it is enabled: onClick runs and its state
\* update is rendered
ClickRunValidation ==
    /\ rendered.button /\ ~rendered.disabled
    /\ nClicks < MaxClicks
    /\ nClicks' = nClicks + 1
    /\ isValidating' = TRUE
    /\ mutations' = validateProject(mutations)
    /\ nStarted' = nStarted + 1
    /\ rendered' = Render(isSuccess, TRUE)
    /\ UNCHANGED isSuccess
    /\ UNCHANGED <<dispatcherVars, selectorVars, limitVars>>

\* a click on the button while it is disabled: the browser calls no handler
ClickDisabled ==
    /\ rendered.button /\ rendered.disabled
    /\ nClicks < MaxClicks
    /\ nClicks' = nClicks + 1
    /\ UNCHANGED <<isSuccess, isValidating, rendered, mutations, nStarted>>
    /\ UNCHANGED <<dispatcherVars, selectorVars, limitVars>>

\* the callback handed to useValidationMutation: `() => setIsValidating(false)`
MutationCallback ==
    /\ CallbackDue(mutations)
    /\ isValidating' = FALSE
    /\ mutations' = MutationOver(mutations)
    /\ UNCHANGED <<isSuccess, rendered, nStarted, nClicks>>
    /\ UNCHANGED <<dispatcherVars, selectorVars, limitVars>>

NoRequest == [query |-> [type |-> "undefined", value |-> <<>>], header |-> JsUndefined]

SelectorIdle ==
    /\ req = NoRequest
    /\ ctx = NotCalled
    /\ warnLog = <<>>

Init ==
    /\ \E d \in Deployments :
          /\ lightdashConfig = d.config
          /\ lightdashContext = Constructor(d.config, d.env)
          /\ anonymousId = StaticAnonymousId(d.env)
    /\ sdkCalls = <<>>
    /\ last = [op |-> "none", input |-> EmptyObject, before |-> 0, outcome |-> NoFailure]
    /\ nOps = 0
    /\ inv = [i \in 1..MaxInv |-> IdleInvocation]
    /\ errorLog = <<>>
    /\ SelectorIdle
    /\ LimitIdle
    /\ ValidatorIdle

Next ==
    \/ Identify
    \/ Track
    \/ Group
    \/ \E i \in 1..MaxInv : WrapEvent(i)
    \/ \E i \in 1..MaxInv : FuncResolves(i)
    \/ \E i \in 1..MaxInv : FuncRejects(i)
    \/ \E i \in 1..MaxInv : CatchResumes(i)

Spec == Init /\ [][Next]_vars

(***************************************************************************)
(* The context selector: getContextFromHeader, getContextFromQueryOrHeader.*)
(* Strings that are compared ignoring case are sequences of characters.    *)
(***************************************************************************)
Chars == {"c", "l", "i", "C", "L", "I", "a", "p", "x"}

\* String.prototype.toLowerCase on one character
LowerChar(ch) ==
    CASE ch = "C" -> "c"
      [] ch = "L" -> "l"
      [] ch = "I" -> "i"
      [] OTHER -> ch

toLowerCase(str) == [k \in 1..Len(str) |-> LowerChar(str[k])]

\* Object.entries(QueryExecutionContext), in declaration order
QueryExecutionContext ==
    <<[key |-> "AI", value |-> <<"a", "i">>],
      [key |-> "API", value |-> <<"a", "p", "i">>],
      [key |-> "CLI", value |-> <<"c", "l", "i">>]>>

QueryExecutionContextCLI == <<"c", "l", "i">>
QueryExecutionContextAPI == <<"a", "p", "i">>

\* the RequestMethod enumeration
RequestMethod == {"CLI", "CLI_CI", "WEB_APP", "HEADLESS_BROWSER", "BACKEND", "UNKNOWN"}

\* getRequestMethod: the header value when it names a request method, UNKNOWN
\* for a missing or unrecognised header
getRequestMethod(headerValue) ==
    IF headerValue \in RequestMethod THEN headerValue ELSE "UNKNOWN"

\* a result of undefined is the value NoContext
NoContext == <<"<undefined>">>

\* mutant: the CLI_CI case label is missing
getContextFromHeader_NoCliCi(request) ==
    LET method == getRequestMethod(request.header)
    IN  CASE method = "CLI" -> QueryExecutionContextCLI
          [] method = "UNKNOWN" -> QueryExecutionContextAPI
          [] OTHER -> NoContext

getContextFromHeader(request) ==
    LET method == getRequestMethod(request.header)
    IN  CASE method \in {"CLI", "CLI_CI"} -> QueryExecutionContextCLI
          [] method = "UNKNOWN" -> QueryExecutionContextAPI
          [] OTHER -> NoContext

\* `typeof req.query.context === 'string' ? req.query.context : undefined`,
\* then `if (context)`: a string that is not empty
HasContext(request) == request.query.type = "string" /\ request.query.value # <<>>

\* mutant: the query value is compared as given
Matches_CaseSensitive(context) ==
    {k \in 1..Len(QueryExecutionContext) :
        toLowerCase(QueryExecutionContext[k].value) = context}

\* the indices of the entries the loop's test accepts
Matches(context) ==
    {k \in 1..Len(QueryExecutionContext) :
        toLowerCase(QueryExecutionContext[k].value) = toLowerCase(context)}

\* the entry the loop returns from: the first it accepts
FirstMatch(context) ==
    CHOOSE k \in Matches(context) : \A j \in Matches(context) : k <= j

\* mutant: an unrecognised value is passed over without a warning
getContextFromQueryOrHeader_Silent(request) ==
    IF HasContext(request) /\ Matches(request.query.value) # {}
    THEN [returned |-> QueryExecutionContext[FirstMatch(request.query.value)].value,
          warned |-> <<>>]
    ELSE [returned |-> getContextFromHeader(request), warned |-> <<>>]

\* getContextFromQueryOrHeader: the value returned and the warnings logged
getContextFromQueryOrHeader(request) ==
    IF HasContext(request)
    THEN IF Matches(request.query.value) # {}
         THEN [returned |-> QueryExecutionContext[FirstMatch(request.query.value)].value,
               warned |-> <<>>]
         ELSE [returned |-> getContextFromHeader(request),
               warned |-> <<<<"Invalid query execution context", request.query.value>>>>]
    ELSE [returned |-> getContextFromHeader(request), warned |-> <<>>]

\* strings of at most n characters
Strings(n) == UNION {[1..k -> Chars] : k \in 0..n}

\* req.query.context: a string, an array or nested object (repeated or
\* bracketed parameters), or missing
QueryContexts ==
    {[type |-> "string", value |-> str] : str \in Strings(MaxLen)}
        \cup {[type |-> "object", value |-> <<>>], [type |-> "undefined", value |-> <<>>]}

\* the request-method header: missing, a request method, or something else
HeaderValues == RequestMethod \cup {JsUndefined, "curl"}

Requests == [query : QueryContexts, header : HeaderValues]

CallGetContextFromQueryOrHeader ==
    /\ ctx = NotCalled
    /\ ctx' = getContextFromQueryOrHeader(req).returned
    /\ warnLog' = warnLog \o getContextFromQueryOrHeader(req).warned
    /\ UNCHANGED req
    /\ UNCHANGED dispatcherVars
    /\ UNCHANGED <<limitVars, validatorVars>>

InitSelector ==
    /\ lightdashConfig = [rudder |-> [writeKey |-> JsUndefined],
                          mode |-> DEFAULT_MODE,
                          siteUrl |-> "https://bi.example"]
    /\ lightdashContext =
          Constructor(lightdashConfig,
                      [LIGHTDASH_INSTALL_ID |-> JsUndefined,
                       LIGHTDASH_INSTALL_TYPE |-> JsUndefined])
    /\ anonymousId = Uuidv4(1)
    /\ sdkCalls = <<>>
    /\ last = [op |-> "none", input |-> EmptyObject, before |-> 0, outcome |-> NoFailure]
    /\ nOps = 0
    /\ inv = [i \in 1..MaxInv |-> IdleInvocation]
    /\ errorLog = <<>>
    /\ req \in Requests
    /\ ctx = NotCalled
    /\ warnLog = <<>>
    /\ LimitIdle
    /\ ValidatorIdle

NextSelector == CallGetContextFromQueryOrHeader

SpecSelector == InitSelector /\ [][NextSelector]_vars

(***************************************************************************)
(* The specifications of parseAnalyticsLimit and of the SettingsValidator  *)
(* component, each beside a dispatcher that is left alone.                 *)
(***************************************************************************)
\* a dispatcher with tracking disabled, on which nothing is called
DispatcherIdle ==
    /\ lightdashConfig = [rudder |-> [writeKey |-> JsUndefined],
                          mode |-> DEFAULT_MODE,
                          siteUrl |-> "https://bi.example"]
    /\ lightdashContext =
          Constructor(lightdashConfig,
                      [LIGHTDASH_INSTALL_ID |-> JsUndefined,
                       LIGHTDASH_INSTALL_TYPE |-> JsUndefined])
    /\ anonymousId = Uuidv4(1)
    /\ sdkCalls = <<>>
    /\ last = [op |-> "none", input |-> EmptyObject, before |-> 0, outcome |-> NoFailure]
    /\ nOps = 0
    /\ inv = [i \in 1..MaxInv |-> IdleInvocation]
    /\ errorLog = <<>>

InitLimit ==
    /\ DispatcherIdle
    /\ SelectorIdle
    /\ ValidatorIdle
    /\ limit \in AnalyticsLimits
    /\ parsed = NotParsed

NextLimit == CallParseAnalyticsLimit

SpecLimit == InitLimit /\ [][NextLimit]_vars

InitValidator ==
    /\ DispatcherIdle
    /\ SelectorIdle
    /\ LimitIdle
    /\ ValidatorIdle

NextValidator ==
    \/ ValidationLoaded
    \/ Rerender
    \/ ClickRunValidation
    \/ ClickDisabled
    \/ MutationCallback

SpecValidator == InitValidator /\ [][NextValidator]_vars

(***************************************************************************)
(* Properties.                                                             *)
(***************************************************************************)
Invocations == 1..MaxInv

\* the SDK call the latest direct call made (it is made before the call returns)
LastCall == sdkCalls[last.before + 1]

\* the SDK calls made by direct calls since the latest direct call began
LastCalls == {k \in (last.before + 1)..Len(sdkCalls) : sdkCalls[k].src = 0}

\* the latest direct call was track, of an event named name, with tracking enabled
TrackedLast(name) ==
    /\ TrackingEnabled
    /\ last.op = "track"
    /\ last.input.event = name

\* the SDK track calls of invocation i whose event carries the suffix
EventsOf(i, suffix) ==
    {k \in 1..Len(sdkCalls) :
        /\ sdkCalls[k].src = i
        /\ sdkCalls[k].method = "track"
        /\ sdkCalls[k].arg.event =
              "lightdash_server." \o inv[i].payload.event \o suffix}

\* the SDK calls of invocation i that threw
FailedCallsOf(i) ==
    {k \in 1..Len(sdkCalls) : sdkCalls[k].src = i /\ sdkCalls[k].threw # NoFailure}

Settled(i) == inv[i].pc \in {"resolved", "rejected"}

\* C1: with tracking disabled (a falsy write key), no identify, track or group
\* call has reached the delivery SDK, whatever calls were made on the dispatcher.
C1_DisabledNoSdkCalls == ~TrackingEnabled => Len(sdkCalls) = 0

\* a disabled dispatcher has served a direct track call and a whole wrapEvent
C1_Witness ==
    /\ ~TrackingEnabled
    /\ last.op = "track"
    /\ \E i \in Invocations : inv[i].pc = "rejected" /\ inv[i].opCalls = 1

\* C2: with tracking enabled every wrapEvent invocation emits exactly one
\* .started event, which is there when the operation is invoked, and exactly
\* one terminal event (.completed or .error, not both, not none) once the
\* operation has settled and wrapEvent has finished.
C2_OneStartedOneTerminal ==
    TrackingEnabled =>
        \A i \in Invocations :
            inv[i].pc # "idle" =>
                /\ Cardinality(EventsOf(i, ".started")) = 1
                /\ (Settled(i) /\ inv[i].opOutcome # "pending") =>
                      Cardinality(EventsOf(i, ".completed") \cup EventsOf(i, ".error")) = 1

\* C3: when the wrapped operation fails (and no SDK call of the invocation
\* throws), wrapEvent fails towards its caller only after the .error event was
\* emitted, and with the very value the operation raised.
C3_RethrowsOriginal ==
    TrackingEnabled =>
        \A i \in Invocations :
            (inv[i].opOutcome = "rejected" /\ inv[i].pc = "rejected"
                    /\ FailedCallsOf(i) = {}) =>
                /\ EventsOf(i, ".error") # {}
                /\ inv[i].value = inv[i].opValue

\* C4: a user.updated event with isTrackingAnonymized true reaches the SDK with
\* a property bag that has none of the keys email, first_name, last_name.
C4_AnonymizedUpdateHasNoPersonalKeys ==
    (TrackedLast("user.updated")
            /\ last.input.properties.isTrackingAnonymized = JsTrue) =>
        /\ Len(sdkCalls) > last.before
        /\ DOMAIN LastCall.arg.properties \cap {"email", "first_name", "last_name"} = {}

\* an anonymized update of a user whose record holds an e-mail address was sent
C4_Witness ==
    /\ TrackedLast("user.updated")
    /\ last.input.properties.isTrackingAnonymized = JsTrue
    /\ last.input.properties.email = "ann@x.io"
    /\ last.outcome = NoFailure
    /\ Len(sdkCalls) > last.before

\* what the source record provides under key k, if anything
Provided(record, k) == k \in DOMAIN record /\ record[k] # JsUndefined

\* C5: a user.updated event with isTrackingAnonymized false reaches the SDK with
\* email, first_name and last_name equal to the source record's email, firstName
\* and lastName, for each of them the source record provides.
C5_PlainUpdateCarriesPersonalFields ==
    (TrackedLast("user.updated")
            /\ last.input.properties.isTrackingAnonymized = JsFalse) =>
        /\ Len(sdkCalls) > last.before
        /\ \A pair \in {<<"email", "email">>, <<"first_name", "firstName">>,
                        <<"last_name", "lastName">>} :
              Provided(last.input.properties, pair[2]) =>
                  /\ pair[1] \in DOMAIN LastCall.arg.properties
                  /\ LastCall.arg.properties[pair[1]] = last.input.properties[pair[2]]

\* a plain update of a user whose record holds all three fields was sent
C5_Witness ==
    /\ TrackedLast("user.updated")
    /\ last.input.properties.isTrackingAnonymized = JsFalse
    /\ \A k \in {"email", "firstName", "lastName"} : Provided(last.input.properties, k)
    /\ Len(sdkCalls) > last.before

\* the input properties of a user.verified event other than email are forwarded
\* unchanged, and nothing else is added
VerifiedOthersForwarded ==
    /\ DOMAIN LastCall.arg.properties = DOMAIN last.input.properties \cup {"email"}
    /\ \A k \in DOMAIN last.input.properties \ {"email"} :
          LastCall.arg.properties[k] = last.input.properties[k]

\* C6 as stated: an anonymized user.verified event reaches the SDK without the
\* key email; a plain one with the input's email when it has one; the other
\* properties are forwarded unchanged.
C6_Original_AnonymizedVerifiedOmitsEmailKey ==
    TrackedLast("user.verified") =>
        /\ Len(sdkCalls) > last.before
        /\ last.input.properties.isTrackingAnonymized = JsTrue =>
              "email" \notin DOMAIN LastCall.arg.properties
        /\ (last.input.properties.isTrackingAnonymized = JsFalse
                /\ Provided(last.input.properties, "email")) =>
              Get(LastCall.arg.properties, "email") = last.input.properties.email
        /\ \A k \in DOMAIN last.input.properties \ {"email"} :
              Get(LastCall.arg.properties, k) = last.input.properties[k]

\* C6 as amended: an anonymized user.verified event reaches the SDK with the key
\* email present and holding undefined, never the input's address; a plain one
\* with the input's email when it has one; the other properties are forwarded
\* unchanged.
C6_AnonymizedVerifiedEmailUndefined ==
    TrackedLast("user.verified") =>
        /\ Len(sdkCalls) > last.before
        /\ last.input.properties.isTrackingAnonymized = JsTrue =>
              /\ "email" \in DOMAIN LastCall.arg.properties
              /\ LastCall.arg.properties.email = JsUndefined
        /\ (last.input.properties.isTrackingAnonymized = JsFalse
                /\ Provided(last.input.properties, "email")) =>
              LastCall.arg.properties.email = last.input.properties.email
        /\ VerifiedOthersForwarded

\* an anonymized verification that names an e-mail address was sent
C6_Witness ==
    /\ TrackedLast("user.verified")
    /\ last.input.properties.isTrackingAnonymized = JsTrue
    /\ Provided(last.input.properties, "email")
    /\ Len(sdkCalls) > last.before

\* C9: track of an event that is neither user.updated nor user.verified makes
\* exactly one SDK track call; its record has the input's fields with the
\* input's values (properties included), except that the event name is prefixed
\* with the application name and the dispatcher's context is attached.
C9_OtherEventsForwarded ==
    (TrackingEnabled /\ last.op = "track"
            /\ last.input.event \notin {"user.updated", "user.verified"}) =>
        /\ Cardinality(LastCalls) = 1
        /\ LastCall.src = 0
        /\ LastCall.method = "track"
        /\ DOMAIN LastCall.arg = DOMAIN last.input \cup {"context"}
        /\ \A f \in DOMAIN last.input \ {"event", "context"} :
              LastCall.arg[f] = last.input[f]
        /\ LastCall.arg.event = "lightdash_server." \o last.input.event
        /\ LastCall.arg.context = lightdashContext

\* a user.deleted event, which has properties, was forwarded
C9_Witness ==
    /\ TrackingEnabled
    /\ last.op = "track"
    /\ last.input.event = "user.deleted"
    /\ last.outcome = NoFailure
    /\ Len(sdkCalls) > last.before

\* C10: a failure raised by wrapEvent's own .started or .completed dispatch is
\* not caught: the invocation emits no .error event and logs nothing, and the
\* failure reaches the caller as it is.
C10_EmissionFailureNotCaught ==
    \A i \in Invocations :
        (\E k \in FailedCallsOf(i) :
                k \in EventsOf(i, ".started") \cup EventsOf(i, ".completed")) =>
            /\ EventsOf(i, ".error") = {}
            /\ \A n \in 1..Len(errorLog) : errorLog[n].src # i
            /\ Settled(i) => inv[i].value = SdkError

\* the selector was called on a string `context` parameter
SelectedString == ctx # NotCalled /\ req.query.type = "string"

\* the known values the query parameter equals when letter case is ignored
KnownIgnoringCase(str) ==
    {QueryExecutionContext[k].value :
        k \in {j \in 1..Len(QueryExecutionContext) :
                  toLowerCase(QueryExecutionContext[j].value) = toLowerCase(str)}}

\* C7: a string `context` parameter that equals a known execution-context value
\* ignoring letter case yields that value in its canonical spelling, whatever
\* the request-method header, and no warning is logged.
C7_KnownContextIgnoringCase ==
    SelectedString =>
        \A value \in KnownIgnoringCase(req.query.value) :
            ctx = value /\ warnLog = <<>>

\* "Cli" was given with a header that classifies otherwise
C7_Witness ==
    /\ SelectedString
    /\ req.query.value = <<"C", "l", "i">>
    /\ req.header = "WEB_APP"
    /\ ctx = QueryExecutionContextCLI

\* C8 as stated: every string `context` parameter that matches no known value
\* logs exactly one warning and yields what getContextFromHeader yields.
C8_Original_UnknownContextWarnsOnce ==
    (SelectedString /\ KnownIgnoringCase(req.query.value) = {}) =>
        /\ Len(warnLog) = 1
        /\ ctx = getContextFromHeader(req)

\* C8 as amended: every string `context` parameter that matches no known value
\* yields what getContextFromHeader yields; it logs exactly one warning when it
\* is not empty, and none when it is the empty string.
C8_UnknownContextFallsBack ==
    (SelectedString /\ KnownIgnoringCase(req.query.value) = {}) =>
        /\ Len(warnLog) = (IF req.query.value = <<>> THEN 0 ELSE 1)
        /\ ctx = getContextFromHeader(req)

\* an unknown, non-empty value was given with the CLI header
C8_Witness ==
    /\ SelectedString
    /\ req.query.value = <<"x", "l">>
    /\ req.header = "CLI"
    /\ Len(warnLog) = 1
    /\ ctx = QueryExecutionContextCLI

\* a step that is a direct identify, track or group call
DirectStep == nOps' = nOps + 1 /\ inv' = inv

\* C11: when the SDK call of a direct identify, track or group call throws, the
\* caller of that call receives the very failure the SDK raised, and the call
\* leaves the dispatcher's context and configuration (with it the suppression
\* flag) as they were.
C11_SdkFailureReachesCaller ==
    [][(/\ DirectStep
        /\ Len(sdkCalls') > Len(sdkCalls)
        /\ sdkCalls'[Len(sdkCalls')].threw # NoFailure) =>
            /\ last'.outcome = sdkCalls'[Len(sdkCalls')].threw
            /\ lightdashContext' = lightdashContext
            /\ lightdashConfig' = lightdashConfig]_vars

\* the SDK threw on a direct group call and the caller saw it
C11_Witness ==
    /\ TrackingEnabled
    /\ last.op = "group"
    /\ Len(sdkCalls) > last.before
    /\ LastCall.threw = SdkError
    /\ last.outcome = SdkError

\* C12: the dispatcher's context is never changed after construction, and
\* every call handed to the SDK, by identify, track, group or wrapEvent,
\* carries that context (app name, version, mode, siteUrl, installId,
\* installType alike).
C12_ContextFixed ==
    [][/\ lightdashContext' = lightdashContext
       /\ \A k \in 1..Len(sdkCalls') : sdkCalls'[k].arg.context = lightdashContext]_vars

\* identify-or-group and a whole wrapEvent have both dispatched
C12_Witness ==
    /\ TrackingEnabled
    /\ \E k \in 1..Len(sdkCalls) : sdkCalls[k].method = "group"
    /\ \E i \in Invocations : inv[i].pc = "resolved" /\ EventsOf(i, ".completed") # {}

\* C13: with tracking enabled identify and group each make exactly one SDK call,
\* of the same name, whose payload has the input's fields with the input's
\* values (userId, groupId, traits) and the dispatcher's context besides; no
\* event name is added and the traits are not transformed.
C13_IdentifyGroupForwarded ==
    (TrackingEnabled /\ last.op \in {"identify", "group"}) =>
        /\ Cardinality(LastCalls) = 1
        /\ LastCall.src = 0
        /\ LastCall.method = last.op
        /\ DOMAIN LastCall.arg = DOMAIN last.input \cup {"context"}
        /\ \A f \in DOMAIN last.input : LastCall.arg[f] = last.input[f]
        /\ LastCall.arg.context = lightdashContext

\* an identify call that names traits was forwarded
C13_Witness ==
    /\ TrackingEnabled
    /\ last.op = "identify"
    /\ "email" \in DOMAIN last.input.traits
    /\ last.outcome = NoFailure
    /\ Len(sdkCalls) > last.before

\* the selector was called on a request without a string `context` parameter,
\* so that it returned what getContextFromHeader returned
SelectedByHeader == ctx # NotCalled /\ req.query.type # "string"

\* C14: getContextFromHeader classifies every request: the request methods CLI
\* and CLI_CI give the CLI execution context, UNKNOWN gives the API execution
\* context, every other request method gives undefined; nothing is logged.
C14_HeaderClassification ==
    SelectedByHeader =>
        /\ getRequestMethod(req.header) \in {"CLI", "CLI_CI"} =>
              ctx = QueryExecutionContextCLI
        /\ getRequestMethod(req.header) = "UNKNOWN" => ctx = QueryExecutionContextAPI
        /\ getRequestMethod(req.header) \notin {"CLI", "CLI_CI", "UNKNOWN"} =>
              ctx = NoContext
        /\ warnLog = <<>>

\* a request from the CLI running in CI was classified
C14_Witness ==
    /\ SelectedByHeader
    /\ req.header = "CLI_CI"
    /\ ctx = QueryExecutionContextCLI

\* the SDK track calls of invocation i that are terminal events
TerminalsOf(i) == EventsOf(i, ".completed") \cup EventsOf(i, ".error")

\* the properties the payload of invocation i came with
BaseProperties(i) == inv[i].payload.properties

NoEventRepeated(i) ==
    \A suffix \in {".started", ".completed", ".error"} :
        Cardinality(EventsOf(i, suffix)) <= 1

\* C16 as stated: every wrapEvent invocation invokes the wrapped operation
\* exactly once, and sends none of its events a second time.
C16_Original_OperationInvokedOnce ==
    \A i \in Invocations :
        inv[i].pc # "idle" => (inv[i].opCalls = 1 /\ NoEventRepeated(i))

\* C16 as amended: every wrapEvent invocation invokes the wrapped operation at
\* most once, whatever fails afterwards: exactly once when its .started
\* dispatch returned, and not at all when that dispatch threw; it sends none of
\* its events a second time.
C16_OperationInvokedAtMostOnce ==
    \A i \in Invocations :
        inv[i].pc # "idle" =>
            /\ inv[i].opCalls =
                  (IF \E k \in FailedCallsOf(i) : k \in EventsOf(i, ".started")
                   THEN 0 ELSE 1)
            /\ NoEventRepeated(i)

\* an invocation whose operation failed has run to its end
C16_Witness ==
    \E i \in Invocations :
        /\ TrackingEnabled
        /\ inv[i].pc = "rejected"
        /\ inv[i].opOutcome = "rejected"
        /\ inv[i].value = OpError
        /\ inv[i].opCalls = 1

\* the object o without its key k
Without(o, k) == [j \in DOMAIN o \ {k} |-> o[j]]

\* the user.updated events that differ from payload in email, firstName and
\* lastName at most
UpdatedVariants(payload) ==
    {[payload EXCEPT !.properties =
          Spread(payload.properties,
                 [email |-> email, firstName |-> first, lastName |-> family])] :
        email \in {JsUndefined, "ann@x.io", "bob@y.io"},
        first \in {"Ann", "Bob"},
        family \in {"Lee", "Roe"}}

\* the user.verified events that differ from payload in email at most
VerifiedVariants(payload) ==
    {[payload EXCEPT !.properties = Without(payload.properties, "email")]}
        \cup {[payload EXCEPT !.properties = Spread(payload.properties, [email |-> email])] :
                email \in {JsUndefined, "ann@x.io", "bob@y.io"}}

\* the anonymized events that differ from the latest input in personal fields only
AnonymizedVariants ==
    IF last.input.event = "user.updated"
    THEN UpdatedVariants(last.input)
    ELSE VerifiedVariants(last.input)

\* the latest direct call was track of an anonymized user.updated or
\* user.verified event, with tracking enabled
TrackedAnonymized ==
    /\ TrackingEnabled
    /\ last.op = "track"
    /\ last.input.event \in {"user.updated", "user.verified"}
    /\ last.input.properties.isTrackingAnonymized = JsTrue
    /\ Len(sdkCalls) > last.before

\* C17: the call handed to the SDK for an anonymized user.updated event is the
\* one every event differing from it only in email, firstName and lastName is
\* handed over as; likewise for an anonymized user.verified event and every
\* event differing from it only in email.
C17_AnonymizedIndependentOfPersonalFields ==
    TrackedAnonymized =>
        \A other \in AnonymizedVariants :
            TrackArg(lightdashContext, other) = LastCall.arg

\* an anonymized update naming a person was sent, and there is an event naming
\* somebody else that is sent as the same call
C17_Witness ==
    /\ TrackedAnonymized
    /\ last.input.event = "user.updated"
    /\ last.input.properties.email = "ann@x.io"
    /\ \E other \in AnonymizedVariants :
          /\ other.properties.email = "bob@y.io"
          /\ other.properties.lastName = "Roe"
          /\ TrackArg(lightdashContext, other) = LastCall.arg

\* C18: once the wrapped operation has resolved and wrapEvent has finished (no
\* SDK call of the invocation having thrown), wrapEvent has resolved with the
\* operation's result and has emitted no .error event, whatever the
\* extraProperties callback was and did.
C18_ResolvedOperationCompletes ==
    \A i \in Invocations :
        (inv[i].opOutcome = "resolved" /\ Settled(i) /\ FailedCallsOf(i) = {}) =>
            /\ inv[i].pc = "resolved"
            /\ inv[i].value = inv[i].opValue
            /\ EventsOf(i, ".error") = {}

\* C19: a .completed event of an invocation carries the keys of the base
\* properties and of the derived properties and no other, each derived key
\* with the derived value and each remaining base key with the base value;
\* with no extraProperties callback it carries exactly the base properties.
\* A .started event carries exactly the base properties.
C19_CompletedMergesDerived ==
    \A i \in Invocations :
        LET base == BaseProperties(i)
            derived == Derived(inv[i].derive, inv[i].opValue)
        IN  /\ \A s \in EventsOf(i, ".started") : sdkCalls[s].arg.properties = base
            /\ \A t \in EventsOf(i, ".completed") :
                  LET sent == sdkCalls[t].arg.properties
                  IN  /\ DOMAIN sent = DOMAIN base \cup DOMAIN derived
                      /\ \A k \in DOMAIN derived : sent[k] = derived[k]
                      /\ \A k \in DOMAIN base \ DOMAIN derived : sent[k] = base[k]
                      /\ inv[i].derive = "absent" => sent = base

\* a .completed event was sent whose derived properties name a key of the base
\* properties, with another value
C19_Witness ==
    \E i \in Invocations :
        /\ inv[i].pc = "resolved"
        /\ inv[i].derive = "projectId"
        /\ BaseProperties(i).projectId = "proj-1"
        /\ \E s \in EventsOf(i, ".started") :
              sdkCalls[s].arg.properties.projectId = "proj-1"
        /\ \E t \in EventsOf(i, ".completed") :
              sdkCalls[t].arg.properties.projectId = "2"

\* the lines invocation i wrote to the error log
LogsOf(i) == {n \in 1..Len(errorLog) : errorLog[n].src = i}

\* C20: in an invocation none of whose SDK calls threw, an .error event carries
\* the base properties plus `error`, the message of the failure caught; the
\* failure is logged only once the .error event is out, and an invocation
\* that has failed towards its caller has logged it exactly once.
C20_ErrorEventThenLoggedOnce ==
    \A i \in Invocations :
        FailedCallsOf(i) = {} =>
            /\ \A t \in EventsOf(i, ".error") :
                  sdkCalls[t].arg.properties =
                      Spread(BaseProperties(i), [error |-> MessageOf(inv[i].e)])
            /\ (TrackingEnabled /\ LogsOf(i) # {}) => EventsOf(i, ".error") # {}
            /\ Cardinality(LogsOf(i)) = IF inv[i].pc = "rejected" THEN 1 ELSE 0

\* the latest direct call was track of a user.updated event and reached the SDK
UpdateSent == TrackedLast("user.updated") /\ Len(sdkCalls) > last.before

\* the base keys of a user.updated bag, each with the record field it is read from
BaseKeySource ==
    [is_tracking_anonymized |-> "isTrackingAnonymized",
     is_marketing_opted_in |-> "isMarketingOptedIn",
     job_title |-> "jobTitle",
     is_setup_complete |-> "isSetupComplete"]

\* C21: the property bag of every user.updated event handed to the SDK,
\* anonymized or not, has the keys is_tracking_anonymized,
\* is_marketing_opted_in, job_title and is_setup_complete, each holding what
\* the source record holds in the field it is read from.
C21_UpdateCarriesBaseProperties ==
    UpdateSent =>
        \A k \in DOMAIN BaseKeySource :
            /\ k \in DOMAIN LastCall.arg.properties
            /\ LastCall.arg.properties[k] = last.input.properties[BaseKeySource[k]]

\* an update that is not anonymized went out with its four base properties,
\* the marketing flag differing from the anonymization flag
C21_Witness ==
    /\ UpdateSent
    /\ last.input.properties.isTrackingAnonymized = JsFalse
    /\ LastCall.arg.properties.is_tracking_anonymized = JsFalse
    /\ LastCall.arg.properties.is_marketing_opted_in = JsTrue
    /\ LastCall.arg.properties.job_title = "analyst"
    /\ LastCall.arg.properties.is_setup_complete = JsFalse

\* C23: the property bag of a user.updated event handed to the SDK has the
\* base keys and, when not anonymized, email, first_name and last_name, and no
\* other key: every other property of the record is dropped.  The record's
\* top-level fields other than event, properties and context are handed over
\* as they came, and no top-level field is added besides those three.
C23_UpdateDropsOtherProperties ==
    UpdateSent =>
        /\ DOMAIN LastCall.arg.properties =
              DOMAIN BaseKeySource \cup
                  (IF last.input.properties.isTrackingAnonymized = JsTrue
                   THEN {}
                   ELSE {"email", "first_name", "last_name"})
        /\ DOMAIN LastCall.arg = DOMAIN last.input \cup {"event", "properties", "context"}
        /\ \A k \in DOMAIN last.input \ {"event", "properties", "context"} :
              LastCall.arg[k] = last.input[k]

\* an update whose record names a role, an organization and the updated user
\* went out without them, its userId handed over
C23_Witness ==
    /\ UpdateSent
    /\ {"role", "organizationId", "updatedUserId", "context"} \subseteq
          DOMAIN last.input.properties
    /\ DOMAIN LastCall.arg.properties \cap
          {"role", "organizationId", "updatedUserId", "context"} = {}
    /\ LastCall.arg.userId = "user-1"

\* C22: with tracking disabled, an invocation of wrapEvent has invoked the
\* wrapped operation exactly once and has emitted nothing; once it has
\* finished it has resolved with the operation's result when the operation
\* resolved, and has failed with the operation's failure when it rejected.
C22_DisabledWrapEventSameOutcome ==
    ~TrackingEnabled =>
        \A i \in Invocations :
            inv[i].pc # "idle" =>
                /\ inv[i].opCalls = 1
                /\ \A k \in 1..Len(sdkCalls) : sdkCalls[k].src # i
                /\ (Settled(i) /\ inv[i].opOutcome = "resolved") =>
                      inv[i].pc = "resolved" /\ inv[i].value = inv[i].opValue
                /\ (Settled(i) /\ inv[i].opOutcome = "rejected") =>
                      inv[i].pc = "rejected" /\ inv[i].value = inv[i].opValue

\* C24: the anonymous id of the dispatcher class is the installId in the
\* context of the dispatcher instance, with LIGHTDASH_INSTALL_ID set or unset.
C24_AnonymousIdIsInstallId == anonymousId = lightdashContext.app.installId

\* parseAnalyticsLimit was called
Parsed == parsed # NotParsed

\* C25: parseAnalyticsLimit returns for every argument one of 'all', 'results'
\* and 'custom': 'all' for the arguments 'all' and null and for no other,
\* 'results' for the arguments 'table' and undefined and for no other, and
\* 'custom' for every number.
C25_ParseAnalyticsLimitCases ==
    Parsed =>
        /\ parsed \in {"all", "results", "custom"}
        /\ parsed = "all" <=>
              \/ limit.type = "null"
              \/ limit.type = "string" /\ limit.str = "all"
        /\ parsed = "results" <=>
              \/ limit.type = "undefined"
              \/ limit.type = "string" /\ limit.str = "table"
        /\ limit.type = "number" => parsed = "custom"

\* null was parsed, to 'all'
C25_Witness == Parsed /\ limit.type = "null" /\ parsed = "all"

\* C26: in the SettingsValidator component, a click that starts a validation
\* starts exactly one and sets isValidating; while isValidating is set the
\* button is disabled and no validation starts; isValidating is reset only in
\* a step in which the callback of a mutation in flight is called; and never
\* is more than one validation in flight.
C26_OneValidationInFlight ==
    /\ [](isValidating => rendered.button /\ rendered.disabled)
    /\ [](mutations <= 1)
    /\ [][/\ nStarted' # nStarted =>
                /\ ~isValidating
                /\ nStarted' = nStarted + 1
                /\ mutations' = mutations + 1
                /\ isValidating'
          /\ (isValidating /\ ~isValidating') =>
                mutations > 0 /\ mutations' = mutations - 1]_vars

\* a second validation runs: the first one's callback was called, the button
\* was rendered enabled again and was clicked, and a click on the disabled
\* button in between started nothing
C26_Witness ==
    /\ nStarted = 2
    /\ nClicks = 3
    /\ isValidating
    /\ mutations = 1
    /\ rendered.disabled

====
